---- MODULE Spec2Model ----
(***************************************************************************)
(* Kindle newsletter formatter: the renderer's UI controller               *)
(* (src/renderer.js), the main-process drop handler                        *)
(* (src/mail-drop-handler.js) and the .eml parser (src/eml-parser.js).     *)
(*                                                                         *)
(* The renderer is one event loop: every action below is one handler run   *)
(* to completion.  Handlers are written as operators from a state record   *)
(* to a state record, so that a handler that calls another function of     *)
(* the file is the composition of the two operators.                       *)
(***************************************************************************)
EXTENDS Integers, Sequences, FiniteSets, Bags, TLC

Null == "null"
\* detectedNewsletterInfo === null
NoInfo == [type |-> Null, name |-> Null, confidence |-> 0]

(***************************************************************************)
(* Bounds of the model.                                                    *)
(***************************************************************************)
\* requests the conversion backend has not answered
MaxPending == 2
\* 'process-dropped-files' messages and replies to them in flight
MaxInFlight == 1
\* closures of startProgressAnimation that are no longer the current one and
\* whose watchdog has not fired yet
MaxStale == 2
\* elements of an array handed to handleMailDrop or to the IPC handler
MaxLen == 3
\* the interval of a closure is followed while its progress (in tenths of a
\* percent) is below this value
MaxEarlyProgress == 10
\* elements of the array a 'file-dropped' message carries
MaxEntries == 2

\* the period of the progress interval and the delay of the watchdog, in ms
IntervalMs == 100
WatchdogMs == 120000
\* the number of interval periods after which the watchdog fires
WatchdogTicks == WatchdogMs \div IntervalMs

(***************************************************************************)
(* Inputs.                                                                 *)
(***************************************************************************)
Paths == {"a.eml", "missing.eml"}
\* the files on disk while the controller runs
ExistingFiles == {"a.eml"}
OutPaths == {"out1.epub", "out2.epub"}

\* a File of a drop's FileList: its path property ("" when it has none)
DroppedFile(p) == [path |-> p, name |-> "f"]
DroppedFileSet == {DroppedFile(p) : p \in Paths \cup {""}}
DropInputs == {<<>>} \cup {<<f>> : f \in DroppedFileSet}
                 \cup {<<DroppedFile("a.eml"), DroppedFile("missing.eml")>>}
\* what the native dialog resolves with: canceled, or the chosen files
DialogResults == {[canceled |-> TRUE, filePaths |-> <<>>],
                  [canceled |-> FALSE, filePaths |-> <<"a.eml">>]}
Formats == {"auto", "epub"}
TemplateValues == {"auto", "substack"}
\* payloads of the backend's events
Results == {[success |-> TRUE, filePath |-> "out1.epub"],
            [success |-> TRUE, filePath |-> "out2.epub"],
            [success |-> FALSE, filePath |-> "out2.epub"],
            [success |-> FALSE, filePath |-> Null]}
Infos == {[type |-> "substack", name |-> "Substack", confidence |-> 80],
          [type |-> "", name |-> "", confidence |-> 0]}
BackendPercentages == {40, 100}

VARIABLES
  uploadedFiles,           \* renderer.js:33
  generatedFilePath,       \* renderer.js:34
  isProcessing,            \* renderer.js:37
  detectedNewsletterInfo,  \* renderer.js:38
  selectedTemplate,        \* renderer.js:39
  selectedFormat,          \* renderer.js:40
  progressInterval,        \* renderer.js:41: NoInterval, or the closure of
                           \* startProgressAnimation whose interval it holds
  generateDisabled,        \* generateKindleBtn.disabled
  openFileDisabled,        \* openFileBtn.disabled
  showInFolderDisabled,    \* showInFolderBtn.disabled
  dropZoneClasses,         \* dropZone.classList
  dialogActive,            \* templateDialog has class 'active'
  templateSelectorValue,   \* templateSelector.value
  preview,                 \* what previewPanel.innerHTML shows
  displayed,               \* the percentage written to the progress bar
  flagged,                 \* the watchdog recoloured the bar
  stale,                   \* the other closures that still have a timer: a bag
  toMain,                  \* 'process-dropped-files' messages not yet handled
  toRenderer,              \* replies of the main-process handler in flight
  pending,                 \* requests the conversion backend has not answered
  pickerOpen,              \* a file dialog is open and has not resolved
  sentFile,                \* the last 'open-file' / 'show-in-folder' message sent
  clock,                   \* the intervals of 100 ms gone by since the closure
                           \* progressInterval holds was created, where the
                           \* specification keeps time
  disk,                    \* the paths that exist on the filesystem
  mailDropInput,           \* the argument of a call of the main-process handlers
  mailDropResult,          \* what the call returned or replied
  parseInput,              \* the argument of a call of parseEmlFile and what
                           \* the file, mailparser and the detector do in it
  parseResult              \* how the promise of the call settled

vars == <<uploadedFiles, generatedFilePath, isProcessing, detectedNewsletterInfo,
          selectedTemplate, selectedFormat, progressInterval, generateDisabled,
          openFileDisabled, showInFolderDisabled, dropZoneClasses, dialogActive,
          templateSelectorValue, preview, displayed, flagged, stale,
          toMain, toRenderer, pending, pickerOpen, sentFile, clock, disk,
          mailDropInput, mailDropResult, parseInput, parseResult>>

\* the state as one record, for the handlers to transform
Cur ==
  [uploadedFiles |-> uploadedFiles, generatedFilePath |-> generatedFilePath,
   isProcessing |-> isProcessing, detectedNewsletterInfo |-> detectedNewsletterInfo,
   selectedTemplate |-> selectedTemplate, selectedFormat |-> selectedFormat,
   progressInterval |-> progressInterval, generateDisabled |-> generateDisabled,
   openFileDisabled |-> openFileDisabled,
   showInFolderDisabled |-> showInFolderDisabled,
   dropZoneClasses |-> dropZoneClasses, dialogActive |-> dialogActive,
   templateSelectorValue |-> templateSelectorValue, preview |-> preview,
   displayed |-> displayed, flagged |-> flagged, stale |-> stale,
   toMain |-> toMain, toRenderer |-> toRenderer, pending |-> pending,
   pickerOpen |-> pickerOpen, sentFile |-> sentFile, clock |-> clock,
   disk |-> disk]

InBounds(t) ==
  /\ t.pending <= MaxPending
  /\ Len(t.toMain) + Len(t.toRenderer) <= MaxInFlight
  /\ BagCardinality(t.stale) <= MaxStale

\* a handler ran and left the state record t
Commit(t) ==
  /\ InBounds(t)
  /\ uploadedFiles' = t.uploadedFiles
  /\ generatedFilePath' = t.generatedFilePath
  /\ isProcessing' = t.isProcessing
  /\ detectedNewsletterInfo' = t.detectedNewsletterInfo
  /\ selectedTemplate' = t.selectedTemplate
  /\ selectedFormat' = t.selectedFormat
  /\ progressInterval' = t.progressInterval
  /\ generateDisabled' = t.generateDisabled
  /\ openFileDisabled' = t.openFileDisabled
  /\ showInFolderDisabled' = t.showInFolderDisabled
  /\ dropZoneClasses' = t.dropZoneClasses
  /\ dialogActive' = t.dialogActive
  /\ templateSelectorValue' = t.templateSelectorValue
  /\ preview' = t.preview
  /\ displayed' = t.displayed
  /\ flagged' = t.flagged
  /\ stale' = t.stale
  /\ toMain' = t.toMain
  /\ toRenderer' = t.toRenderer
  /\ pending' = t.pending
  /\ pickerOpen' = t.pickerOpen
  /\ sentFile' = t.sentFile
  /\ clock' = t.clock
  /\ disk' = t.disk
  /\ UNCHANGED <<mailDropInput, mailDropResult, parseInput, parseResult>>

(***************************************************************************)
(* renderer.js: functions.                                                 *)
(***************************************************************************)
\* ipc.send('process-dropped-files', msg)
SendProcess(s, msg) ==
  [s EXCEPT !.toMain = Append(@, msg), !.pending = @ + 1]

\* a closure of startProgressAnimation: its progress (in tenths of a percent),
\* whether its interval timer is active and whether its watchdog is pending
Closure(progress, interval, watchdog) ==
  [progress |-> progress, interval |-> interval, watchdog |-> watchdog]

\* progressInterval === null
NoInterval == Closure(-1, FALSE, FALSE)

\* the closure c is no longer the one progressInterval refers to; it stays
\* alive while it has a timer
Keep(s, c) ==
  IF c.interval \/ c.watchdog THEN [s EXCEPT !.stale = @ (+) SetToBag({c})] ELSE s

\* clearInterval(progressInterval)
clearInterval(s) ==
  IF s.progressInterval = NoInterval THEN s
  ELSE [s EXCEPT !.progressInterval.interval = FALSE]

\* progressInterval = v, where v is NoInterval (null) or a new closure
SetProgressInterval(s, v) ==
  IF s.progressInterval = NoInterval THEN [s EXCEPT !.progressInterval = v]
  ELSE [Keep(s, s.progressInterval) EXCEPT !.progressInterval = v]

updateGenerateButtonState(s, enabled) ==
  [s EXCEPT !.generateDisabled = ~enabled]

updateProgressDisplay(s, percentage) ==
  LET s1 == [s EXCEPT !.displayed = percentage]
  IN  IF percentage < 100
        THEN [s1 EXCEPT !.dropZoneClasses = @ \cup {"processing"},
                        !.isProcessing = TRUE]
        ELSE s1

\* startProgressAnimation without the clearInterval of lines 877-879
startProgressAnimationNoClear(s) ==
  LET s2 == [s EXCEPT !.displayed = 0, !.clock = 0]
  IN  SetProgressInterval(s2, Closure(0, TRUE, TRUE))

\* lines 875-955: a new closure, its interval timer and its 120 s watchdog
startProgressAnimation(s) ==
  LET s1 == IF s.progressInterval # NoInterval THEN clearInterval(s) ELSE s
      s2 == [s1 EXCEPT !.displayed = 0, !.clock = 0]
  IN  SetProgressInterval(s2, Closure(0, TRUE, TRUE))

\* processSelectedFiles without the test of lines 366-368
processSelectedFilesUnguarded(s) ==
  LET s1 == [s EXCEPT !.isProcessing = TRUE,
                      !.dropZoneClasses = @ \cup {"processing"}]
      s2 == updateGenerateButtonState(s1, FALSE)
      s3 == SendProcess(s2, [paths |-> s.uploadedFiles,
                             formatPreference |-> s.selectedFormat,
                             selectedTemplate |-> s.selectedTemplate])
  IN  startProgressAnimation(s3)

processSelectedFiles(s) ==
  IF Len(s.uploadedFiles) = 0
    THEN s
    ELSE LET s1 == [s EXCEPT !.isProcessing = TRUE,
                             !.dropZoneClasses = @ \cup {"processing"}]
             s2 == updateGenerateButtonState(s1, FALSE)
             s3 == SendProcess(s2, [paths |-> s.uploadedFiles,
                                    formatPreference |-> s.selectedFormat,
                                    selectedTemplate |-> s.selectedTemplate])
         IN  startProgressAnimation(s3)

handleFileSelection(s, filePaths) ==
  IF Len(filePaths) = 0
    THEN s
    ELSE LET s1 == [s EXCEPT !.uploadedFiles = filePaths]
             s2 == updateGenerateButtonState(s1, TRUE)
         IN  [s2 EXCEPT !.preview = "filesReady"]

\* the paths of the dropped File objects that have one
DroppedPaths(files) ==
  LET withPath == SelectSeq(files, LAMBDA f : f.path # "")
  IN  [i \in 1..Len(withPath) |-> withPath[i].path]

\* handleFileDrop sending the default format whatever is selected
handleFileDropDefaultFormat(s, files) ==
  LET filePaths == DroppedPaths(files)
  IN  IF Len(files) = 0 \/ Len(filePaths) = 0
        THEN s
        ELSE LET s1 == [s EXCEPT !.uploadedFiles = filePaths]
                 s2 == SendProcess(s1, [paths |-> filePaths,
                                        formatPreference |-> "auto",
                                        selectedTemplate |-> s.selectedTemplate])
                 s3 == [s2 EXCEPT !.dropZoneClasses = @ \cup {"processing"},
                                  !.isProcessing = TRUE]
                 s4 == updateGenerateButtonState(s3, FALSE)
             IN  startProgressAnimation(s4)

handleFileDrop(s, files) ==
  LET filePaths == DroppedPaths(files)
  IN  IF Len(files) = 0 \/ Len(filePaths) = 0
        THEN s
        ELSE LET s1 == [s EXCEPT !.uploadedFiles = filePaths]
                 s2 == SendProcess(s1, [paths |-> filePaths,
                                        formatPreference |-> s.selectedFormat,
                                        selectedTemplate |-> s.selectedTemplate])
                 s3 == [s2 EXCEPT !.dropZoneClasses = @ \cup {"processing"},
                                  !.isProcessing = TRUE]
                 s4 == updateGenerateButtonState(s3, FALSE)
             IN  startProgressAnimation(s4)

handleSelectedFiles(s, files) ==
  LET filePaths == SelectSeq(files, LAMBDA f : f # "")
  IN  IF Len(files) = 0 \/ Len(filePaths) = 0
        THEN s
        ELSE LET s1 == [s EXCEPT !.uploadedFiles = filePaths]
                 s2 == updateGenerateButtonState(s1, TRUE)
             IN  [s2 EXCEPT !.preview = "filesReady"]

showTemplateConfirmation(s, info) ==
  [s EXCEPT !.templateSelectorValue = info.type, !.dialogActive = TRUE]

\* clearContent without lines 983-987: the interval is left running
clearContentLeavesTimer(s) ==
  LET s1 == [s EXCEPT !.uploadedFiles = <<>>,
                      !.generatedFilePath = Null,
                      !.detectedNewsletterInfo = NoInfo,
                      !.selectedTemplate = Null,
                      !.isProcessing = FALSE]
      s3 == [s1 EXCEPT !.dropZoneClasses =
                          @ \ {"processing", "processed", "drag-over"},
                       !.preview = "placeholder",
                       !.openFileDisabled = TRUE,
                       !.showInFolderDisabled = TRUE]
  IN  updateGenerateButtonState(s3, FALSE)

\* clearContent with 'drag-over' left on the drop zone
clearContentKeepsDragOver(s) ==
  LET s1 == [s EXCEPT !.uploadedFiles = <<>>,
                      !.generatedFilePath = Null,
                      !.detectedNewsletterInfo = NoInfo,
                      !.selectedTemplate = Null,
                      !.isProcessing = FALSE]
      s2 == IF s1.progressInterval # NoInterval
              THEN SetProgressInterval(clearInterval(s1), NoInterval)
              ELSE s1
      s3 == [s2 EXCEPT !.dropZoneClasses = @ \ {"processing", "processed"},
                       !.preview = "placeholder",
                       !.openFileDisabled = TRUE,
                       !.showInFolderDisabled = TRUE]
  IN  updateGenerateButtonState(s3, FALSE)

\* lines 974-1012, called with updateUI truthy
clearContent(s) ==
  LET s1 == [s EXCEPT !.uploadedFiles = <<>>,
                      !.generatedFilePath = Null,
                      !.detectedNewsletterInfo = NoInfo,
                      !.selectedTemplate = Null,
                      !.isProcessing = FALSE]
      s2 == IF s1.progressInterval # NoInterval
              THEN SetProgressInterval(clearInterval(s1), NoInterval)
              ELSE s1
      s3 == [s2 EXCEPT !.dropZoneClasses =
                          @ \ {"processing", "processed", "drag-over"},
                       !.preview = "placeholder",
                       !.openFileDisabled = TRUE,
                       !.showInFolderDisabled = TRUE]
  IN  updateGenerateButtonState(s3, FALSE)

(***************************************************************************)
(* JavaScript values, as far as the handlers of mail-drop-handler.js tell  *)
(* them apart: a tag (typeof, with arrays, null and Buffers kept apart)    *)
(* and a content.  An object is the sequence of its own enumerable         *)
(* properties in enumeration order.                                        *)
(***************************************************************************)
JStr(x) == [t |-> "string", v |-> x]
JArr(elems) == [t |-> "array", v |-> elems]
JObj(props) == [t |-> "object", v |-> props]
JBuf(x) == [t |-> "buffer", v |-> x]
JNum(n) == [t |-> "number", v |-> n]
JBool(b) == [t |-> "boolean", v |-> b]
JNull == [t |-> "null", v |-> 0]
JUndef == [t |-> "undefined", v |-> 0]
Prop(k, v) == [k |-> k, v |-> v]

\* typeof v === 'object'
IsObjectType(v) == v.t \in {"object", "array", "buffer", "null"}

\* the value in a boolean context
Truthy(v) ==
  CASE v.t \in {"null", "undefined"} -> FALSE
    [] v.t = "string" -> v.v # ""
    [] v.t = "number" -> v.v # 0
    [] v.t = "boolean" -> v.v
    [] OTHER -> TRUE

\* o.k, for an o that is neither null nor undefined
GetProp(o, k) ==
  IF o.t = "object" /\ \E i \in 1..Len(o.v) : o.v[i].k = k
    THEN o.v[CHOOSE i \in 1..Len(o.v) : o.v[i].k = k].v
    ELSE JUndef

\* String.prototype.trim on the strings of the model: leading and trailing
\* blanks go
Trim(x) ==
  CASE x = " " -> ""
    [] x = " a.eml " -> "a.eml"
    [] x = "b.pdf " -> "b.pdf"
    [] OTHER -> x

\* fs.existsSync: a string or a Buffer that names an existing path; false
\* (never an exception) for every other argument
existsSync(v) == v.t \in {"string", "buffer"} /\ v.v \in disk

(***************************************************************************)
(* mail-drop-handler.js                                                    *)
(***************************************************************************)
\* the candidate list with the string branch keeping the string untrimmed
SanitizedPathsUntrimmed(filePaths) ==
  IF filePaths.t = "array" THEN filePaths.v
  ELSE IF Truthy(filePaths) /\ filePaths.t = "string" /\ Trim(filePaths.v) # ""
    THEN <<filePaths>>
  ELSE IF /\ Truthy(filePaths) /\ IsObjectType(filePaths)
          /\ Truthy(GetProp(filePaths, "paths"))
          /\ GetProp(filePaths, "paths").t = "array"
    THEN GetProp(filePaths, "paths").v
  ELSE IF Truthy(filePaths) /\ IsObjectType(filePaths)
    THEN LET vals == IF filePaths.t = "object"
                       THEN [i \in 1..Len(filePaths.v) |-> filePaths.v[i].v]
                       ELSE <<>>
         IN  SelectSeq(vals, LAMBDA p : p.t = "string" /\ Trim(p.v) # "")
  ELSE <<>>

\* lines 27-45: the candidate list
SanitizedPaths(filePaths) ==
  IF filePaths.t = "array" THEN filePaths.v
  ELSE IF Truthy(filePaths) /\ filePaths.t = "string" /\ Trim(filePaths.v) # ""
    THEN <<JStr(Trim(filePaths.v))>>
  ELSE IF /\ Truthy(filePaths) /\ IsObjectType(filePaths)
          /\ Truthy(GetProp(filePaths, "paths"))
          /\ GetProp(filePaths, "paths").t = "array"
    THEN GetProp(filePaths, "paths").v
  ELSE IF Truthy(filePaths) /\ IsObjectType(filePaths)
    THEN LET vals == IF filePaths.t = "object"
                       THEN [i \in 1..Len(filePaths.v) |-> filePaths.v[i].v]
                       ELSE <<>>
         IN  SelectSeq(vals, LAMBDA p : p.t = "string" /\ Trim(p.v) # "")
  ELSE <<>>

\* the existence filter dropping the last kept path when it repeats the first
ValidFilesOnce(sanitizedPaths) ==
  LET kept == SelectSeq(sanitizedPaths, LAMBDA filePath : existsSync(filePath))
  IN  IF Len(kept) > 1 /\ kept[1] = kept[Len(kept)]
        THEN SubSeq(kept, 1, Len(kept) - 1) ELSE kept

\* lines 47-57: the existence filter
ValidFiles(sanitizedPaths) ==
  SelectSeq(sanitizedPaths, LAMBDA filePath : existsSync(filePath))

handleMailDrop(filePaths) == ValidFiles(SanitizedPaths(filePaths))

NoValidFiles == "No valid files found for processing."

\* the filter of lines 132-134 without its string test
IpcValidFilesAnyType(pathsArray) ==
  SelectSeq(pathsArray, LAMBDA filePath :
     Truthy(filePath) /\ existsSync(filePath))

\* lines 132-134
IpcValidFiles(pathsArray) ==
  SelectSeq(pathsArray, LAMBDA filePath :
     Truthy(filePath) /\ filePath.t = "string" /\ existsSync(filePath))

\* lines 124-125
PathsArray(filePaths) ==
  IF filePaths.t = "array" THEN filePaths.v
  ELSE IF filePaths.t = "string" THEN <<filePaths>>
  ELSE <<>>

\* lines 114-146: what the listener sends on event.sender for one
\* 'process-dropped-files' message, in sending order
ProcessDroppedFilesSends(data) ==
  IF ~Truthy(data) \/ ~Truthy(GetProp(data, "paths"))
    THEN <<[ch |-> "error", payload |-> NoValidFiles]>>
    ELSE LET pathsArray == PathsArray(GetProp(data, "paths"))
             validFiles == IpcValidFiles(pathsArray)
         IN  IF Len(pathsArray) = 0
               THEN <<[ch |-> "error", payload |-> NoValidFiles]>>
             ELSE IF Len(validFiles) = 0
               THEN <<[ch |-> "error", payload |-> NoValidFiles]>>
             ELSE <<[ch |-> "file-dropped", payload |-> validFiles]>>

\* the reply sent for one 'process-dropped-files' message
ProcessDroppedFilesReply(data) == ProcessDroppedFilesSends(data)[1]

(***************************************************************************)
(* eml-parser.js: parseEmlFile.  What the file system, mailparser and the  *)
(* newsletter detector (./newsletter-detector, loaded at run time) do in   *)
(* one call is the call's environment.  A value thrown by any of them is   *)
(* an Error carrying a message.                                            *)
(***************************************************************************)
GenericInfo == [type |-> "generic", name |-> "Newsletter", confidence |-> 0]

\* the position of the last '/' of p, 0 when it has none
LastSlash(p) ==
  LET slashes == {i \in 1..Len(p) : SubSeq(p, i, i) = "/"}
  IN  IF slashes = {} THEN 0
      ELSE CHOOSE i \in slashes : \A j \in slashes : j <= i

\* path.basename(p, ext) on paths without a trailing '/': the part after the
\* last '/', without ext when it ends with ext and is longer than ext
basename(p, ext) ==
  LET base == SubSeq(p, LastSlash(p) + 1, Len(p))
  IN  IF p = ext THEN ""
      ELSE IF Len(base) > Len(ext)
              /\ SubSeq(base, Len(base) - Len(ext) + 1, Len(base)) = ext
        THEN SubSeq(base, 1, Len(base) - Len(ext))
      ELSE base

\* the moment of the call, and the Date of the message's Date header
CallTime == "now"
HeaderDate == "sent"

\* Date.prototype.toUTCString
toUTCString(d) ==
  IF d = HeaderDate THEN "Sun, 01 Nov 2026 10:00:00 GMT"
  ELSE "Thu, 05 Nov 2026 12:00:00 GMT"

\* an optional property of the object mailparser resolves with
Absent == [present |-> FALSE, value |-> <<>>]
Present(v) == [present |-> TRUE, value |-> v]

\* the objects simpleParser resolves with: subject, text, html are strings
\* ("" when the message has none), date is a Date or missing, from is an
\* address object (its text possibly empty) or missing, attachments an array
\* or missing
ParsedMails ==
  [subject : {"", "Weekly"},
   from : {[present |-> FALSE, text |-> ""], [present |-> TRUE, text |-> ""],
           [present |-> TRUE, text |-> "Ann <ann@example.org>"]},
   text : {"", "Hello"},
   html : {"", "<p>Hello</p>"},
   date : {"", HeaderDate},
   attachments : {Absent, Present(<<>>), Present(<<"logo.png">>)}]

NoMail ==
  [subject |-> "", from |-> [present |-> FALSE, text |-> ""], text |-> "",
   html |-> "", date |-> "", attachments |-> Absent]

\* what require('./newsletter-detector') and the call of
\* detectNewsletterType do: load is "throws" (no such module), "null" (the
\* module exports nothing usable), "noFunction" or "function"; call is
\* "returns" (value: the classification, NoInfo for null) or "throws"
DetectorRuns ==
  {[load |-> l, call |-> "", value |-> NoInfo, message |-> ""] :
      l \in {"null", "noFunction"}}
    \cup {[load |-> "throws", call |-> "", value |-> NoInfo,
           message |-> "Cannot find module './newsletter-detector'"]}
    \cup {[load |-> "function", call |-> "returns", value |-> v, message |-> ""] :
            v \in {[type |-> "substack", name |-> "Substack", confidence |-> 80],
                   GenericInfo, NoInfo}}
    \cup {[load |-> "function", call |-> "throws", value |-> NoInfo,
           message |-> "detector failed"]}

NoDetector == [load |-> "null", call |-> "", value |-> NoInfo, message |-> ""]

\* the outcome of a step that may throw
Works == [ok |-> TRUE, message |-> ""]
Throws(m) == [ok |-> FALSE, message |-> m]

\* the environments of one call: the read fails, or mailparser rejects, or
\* both work and the detector does one of the things above
ParseEnvs ==
  {[read |-> Throws(m), parse |-> Works, parsed |-> NoMail, detector |-> NoDetector] :
      m \in {"EISDIR: illegal operation on a directory, read",
             "EACCES: permission denied"}}
    \cup {[read |-> Works, parse |-> Throws("Invalid MIME structure"),
           parsed |-> NoMail, detector |-> NoDetector]}
    \cup {[read |-> Works, parse |-> Works, parsed |-> m, detector |-> d] :
            m \in ParsedMails, d \in DetectorRuns}

ParsePaths == {"a.eml", "in/news.eml", "in/b.pdf"}

\* lines 30-38
ParsedResult(emlFilePath, parsed) ==
  [subject |-> IF parsed.subject # "" THEN parsed.subject
               ELSE basename(emlFilePath, ".eml"),
   from |-> IF parsed.from.present THEN parsed.from.text ELSE "",
   text |-> parsed.text,
   html |-> parsed.html,
   date |-> IF parsed.date # "" THEN toUTCString(parsed.date)
            ELSE toUTCString(CallTime),
   attachments |-> IF parsed.attachments.present
                     THEN parsed.attachments.value ELSE <<>>,
   newsletterInfo |-> GenericInfo]

\* the inner try with a throwing detector leaving newsletterInfo null
DetectNewsletterClearsOnThrow(result, detector) ==
  IF detector.load = "function" /\ detector.call = "returns"
    THEN [result EXCEPT !.newsletterInfo = detector.value]
  ELSE IF detector.load = "function"
    THEN [result EXCEPT !.newsletterInfo = NoInfo]
  ELSE result

\* lines 41-49: require throws, or the test of line 43 fails, or the call
\* throws before the assignment of line 44: result is left as it is.  When
\* the call returns, line 44 stores the value; for null, line 45 then throws
\* and the catch of line 47 leaves the stored null in place.
DetectNewsletter(result, detector) ==
  IF detector.load = "function" /\ detector.call = "returns"
    THEN [result EXCEPT !.newsletterInfo = detector.value]
    ELSE result

\* the envelope of lines 56-63 with the file name kept whole
ErrorEnvelopeFullName(emlFilePath, message) ==
  [subject |-> basename(emlFilePath, ""),
   from |-> "",
   text |-> "Error parsing file: " \o message,
   html |-> "<p>Error parsing file: " \o message \o "</p>",
   date |-> toUTCString(CallTime),
   newsletterInfo |-> GenericInfo]

\* lines 56-63
ErrorEnvelope(emlFilePath, message) ==
  [subject |-> basename(emlFilePath, ".eml"),
   from |-> "",
   text |-> "Error parsing file: " \o message,
   html |-> "<p>Error parsing file: " \o message \o "</p>",
   date |-> toUTCString(CallTime),
   newsletterInfo |-> GenericInfo]

NoEnvelope == [none |-> TRUE]
Rejected(m) == [kind |-> "rejected", message |-> m, envelope |-> NoEnvelope]
Resolved(e) == [kind |-> "resolved", message |-> "", envelope |-> e]

\* parseEmlFile with the read of line 22 outside the try
parseEmlFileReadOutsideTry(emlFilePath, env) ==
  IF ~existsSync(JStr(emlFilePath))
    THEN Rejected("File not found: " \o emlFilePath)
  ELSE IF ~env.read.ok THEN Rejected(env.read.message)
  ELSE IF ~env.parse.ok THEN Resolved(ErrorEnvelope(emlFilePath, env.parse.message))
  ELSE Resolved(DetectNewsletter(ParsedResult(emlFilePath, env.parsed),
                                 env.detector))

\* lines 12-65: how the promise of parseEmlFile(emlFilePath) settles
parseEmlFile(emlFilePath, env) ==
  IF ~existsSync(JStr(emlFilePath))
    THEN Rejected("File not found: " \o emlFilePath)
  ELSE IF ~env.read.ok THEN Resolved(ErrorEnvelope(emlFilePath, env.read.message))
  ELSE IF ~env.parse.ok THEN Resolved(ErrorEnvelope(emlFilePath, env.parse.message))
  ELSE Resolved(DetectNewsletter(ParsedResult(emlFilePath, env.parsed),
                                 env.detector))

\* no call of parseEmlFile made
NoParseInput ==
  [path |-> "", env |-> [read |-> Works, parse |-> Works, parsed |-> NoMail,
                         detector |-> NoDetector]]
NotParsed == [kind |-> "", message |-> "", envelope |-> NoEnvelope]

(***************************************************************************)
(* renderer.js: the interval callback and the watchdog of one closure.     *)
(***************************************************************************)
\* the step with the last band as fast as the second
IncrementSpeedsUp(progress) ==
  IF progress > 300 /\ progress < 600 THEN 3
  ELSE IF progress >= 600 /\ progress < 800 THEN 2
  ELSE IF progress >= 800 THEN 3
  ELSE 5

\* lines 918-927, in tenths of a percent
Increment(progress) ==
  IF progress > 300 /\ progress < 600 THEN 3
  ELSE IF progress >= 600 /\ progress < 800 THEN 2
  ELSE IF progress >= 800 THEN 1
  ELSE 5

Min(a, b) == IF a < b THEN a ELSE b

\* Math.round of a value given in tenths
Round(tenths) == (tenths + 5) \div 10

\* the interval callback without the cap at 95
IntervalCallbackUncapped(s, c, elapsed) ==
  IF ~s.isProcessing
    THEN [st |-> SetProgressInterval(clearInterval(s), NoInterval), c |-> c]
    ELSE LET p1 == IF elapsed THEN c.progress + Increment(c.progress)
                              ELSE c.progress
             p2 == Min(p1, 1000)
         IN  [st |-> updateProgressDisplay(s, Round(p2)),
              c |-> [c EXCEPT !.progress = p2]]

\* the interval callback with its cap at 85
IntervalCallbackLowCap(s, c, elapsed) ==
  IF ~s.isProcessing
    THEN [st |-> SetProgressInterval(clearInterval(s), NoInterval), c |-> c]
    ELSE LET p1 == IF elapsed THEN c.progress + Increment(c.progress)
                              ELSE c.progress
             p2 == Min(p1, 850)
         IN  [st |-> updateProgressDisplay(s, Round(p2)),
              c |-> [c EXCEPT !.progress = p2]]

\* lines 905-940, the interval callback of closure c; cur: c is the closure
\* progressInterval refers to; elapsed: at least 100 ms have passed since the
\* last update.  The closure is returned beside the state.
IntervalCallback(s, c, elapsed) ==
  IF ~s.isProcessing
    THEN [st |-> SetProgressInterval(clearInterval(s), NoInterval), c |-> c]
    ELSE LET p1 == IF elapsed THEN c.progress + Increment(c.progress)
                              ELSE c.progress
             p2 == Min(p1, 950)
         IN  [st |-> updateProgressDisplay(s, Round(p2)),
              c |-> [c EXCEPT !.progress = p2]]

\* a watchdog that also gives the run up
WatchdogCallbackAborts(s, c) ==
  IF s.isProcessing /\ c.progress < 900
    THEN [s EXCEPT !.flagged = TRUE, !.isProcessing = FALSE]
    ELSE s

\* lines 943-954, the watchdog of closure c
WatchdogCallback(s, c) ==
  IF s.isProcessing /\ c.progress < 900 THEN [s EXCEPT !.flagged = TRUE] ELSE s

(***************************************************************************)
(* renderer.js: the handlers of the backend's events.                      *)
(***************************************************************************)
\* the 'ebook-generated' listener without its clearInterval
EbookGeneratedLeavesTimer(s, result) ==
  LET s1 == [s EXCEPT !.isProcessing = FALSE,
                      !.dropZoneClasses = @ \ {"processing"}]
      s3 == updateProgressDisplay(s1, 100)
      s4 == IF result.success
              THEN [s3 EXCEPT !.generatedFilePath = result.filePath,
                              !.openFileDisabled = FALSE,
                              !.showInFolderDisabled = FALSE,
                              !.preview = "success",
                              !.dropZoneClasses = @ \cup {"processed"}]
              ELSE LET s3a == [s3 EXCEPT !.preview = "failed"]
                   IN  IF result.filePath # Null
                         THEN [s3a EXCEPT !.generatedFilePath = result.filePath,
                                          !.openFileDisabled = FALSE,
                                          !.showInFolderDisabled = FALSE]
                         ELSE s3a
  IN  updateGenerateButtonState(s4, Len(s4.uploadedFiles) > 0)

\* the 'ebook-generated' listener enabling the result buttons on a failure
\* whether or not the result carries a file
EbookGeneratedAlwaysEnables(s, result) ==
  LET s1 == [s EXCEPT !.isProcessing = FALSE,
                      !.dropZoneClasses = @ \ {"processing"}]
      s2 == IF s1.progressInterval # NoInterval
              THEN SetProgressInterval(clearInterval(s1), NoInterval)
              ELSE s1
      s3 == updateProgressDisplay(s2, 100)
      s4 == IF result.success
              THEN [s3 EXCEPT !.generatedFilePath = result.filePath,
                              !.openFileDisabled = FALSE,
                              !.showInFolderDisabled = FALSE,
                              !.preview = "success",
                              !.dropZoneClasses = @ \cup {"processed"}]
              ELSE [s3 EXCEPT !.preview = "failed",
                              !.generatedFilePath =
                                 IF result.filePath # Null
                                   THEN result.filePath ELSE @,
                              !.openFileDisabled = FALSE,
                              !.showInFolderDisabled = FALSE]
  IN  updateGenerateButtonState(s4, Len(s4.uploadedFiles) > 0)

\* lines 71-168
EbookGenerated(s, result) ==
  LET s1 == [s EXCEPT !.isProcessing = FALSE,
                      !.dropZoneClasses = @ \ {"processing"}]
      s2 == IF s1.progressInterval # NoInterval
              THEN SetProgressInterval(clearInterval(s1), NoInterval)
              ELSE s1
      s3 == updateProgressDisplay(s2, 100)
      s4 == IF result.success
              THEN [s3 EXCEPT !.generatedFilePath = result.filePath,
                              !.openFileDisabled = FALSE,
                              !.showInFolderDisabled = FALSE,
                              !.preview = "success",
                              !.dropZoneClasses = @ \cup {"processed"}]
              ELSE LET s3a == [s3 EXCEPT !.preview = "failed"]
                   IN  IF result.filePath # Null
                         THEN [s3a EXCEPT !.generatedFilePath = result.filePath,
                                          !.openFileDisabled = FALSE,
                                          !.showInFolderDisabled = FALSE]
                         ELSE s3a
  IN  updateGenerateButtonState(s4, Len(s4.uploadedFiles) > 0)

\* what path.basename (window.path, line 6) does with an argument that is not
\* a string: the path module of Node throws a TypeError, another
\* implementation behind the bridge may return a value
BasenameOutcomes == {"throws", "returns"}

\* lines 71-168 on a success result that carries no filePath (the filePath of
\* a result is optional): generatedFilePath becomes undefined, taken as null,
\* and path.basename(undefined) is evaluated at line 93; when it throws the
\* listener ends there
EbookGeneratedNoFile(s, outcome) ==
  LET s1 == [s EXCEPT !.isProcessing = FALSE,
                      !.dropZoneClasses = @ \ {"processing"}]
      s2 == IF s1.progressInterval # NoInterval
              THEN SetProgressInterval(clearInterval(s1), NoInterval)
              ELSE s1
      s3 == updateProgressDisplay(s2, 100)
      s4 == [s3 EXCEPT !.generatedFilePath = Null]
  IN  IF outcome = "throws"
        THEN s4
        ELSE LET s5 == [s4 EXCEPT !.openFileDisabled = FALSE,
                                  !.showInFolderDisabled = FALSE,
                                  !.preview = "success",
                                  !.dropZoneClasses = @ \cup {"processed"}]
             IN  updateGenerateButtonState(s5, Len(s5.uploadedFiles) > 0)

\* lines 526-536 for one entry of the payload, a JavaScript value: the path
\* the loop finds for it, "" when it finds none.  The entry is not null.
EntryPath(file) ==
  IF IsObjectType(file) /\ Truthy(GetProp(file, "path"))
    THEN GetProp(file, "path").v
  ELSE IF file.t = "string" THEN file.v
  ELSE ""

\* lines 522-575 on an array of JavaScript values.  typeof null is 'object',
\* so for a null entry line 528 reads null.path and throws a TypeError: the
\* listener ends inside the loop, before anything is stored.
handleSelectedFilesValues(s, files) ==
  IF Len(files) = 0 \/ \E i \in 1..Len(files) : files[i] = JNull
    THEN s
    ELSE LET found == [i \in 1..Len(files) |-> EntryPath(files[i])]
             filePaths == SelectSeq(found, LAMBDA f : f # "")
         IN  IF Len(filePaths) = 0
               THEN s
               ELSE LET s1 == [s EXCEPT !.uploadedFiles = filePaths]
                        s2 == updateGenerateButtonState(s1, TRUE)
                    IN  [s2 EXCEPT !.preview = "filesReady"]

\* lines 170-178 on a payload that is any JavaScript value
FileDroppedValue(s, payload) ==
  IF payload.t = "array" /\ Len(payload.v) > 0
    THEN handleSelectedFilesValues(s, payload.v)
    ELSE s

\* lines 170-178
FileDropped(s, filePaths) ==
  IF Len(filePaths) > 0 THEN handleSelectedFiles(s, filePaths) ELSE s

\* lines 180-192
NewsletterInfo(s, info) ==
  IF info.type # ""
    THEN showTemplateConfirmation([s EXCEPT !.detectedNewsletterInfo = info], info)
    ELSE processSelectedFiles(s)

\* lines 194-197
ProgressUpdate(s, data) == updateProgressDisplay(s, data.percentage)

\* lines 199-201: the message is shown, nothing else changes
ErrorEvent(s, message) == s

(***************************************************************************)
(* The initial state: the module-level state of renderer.js (lines 33-41)  *)
(* and the page as it is loaded.                                           *)
(***************************************************************************)
NoFileMsg == [ch |-> "", filePath |-> Null]

InitRenderer ==
  /\ uploadedFiles = <<>>
  /\ generatedFilePath = Null
  /\ isProcessing = FALSE
  /\ detectedNewsletterInfo = NoInfo
  /\ selectedTemplate = Null
  /\ selectedFormat = "auto"
  /\ progressInterval = NoInterval
  /\ generateDisabled = TRUE
  /\ openFileDisabled = TRUE
  /\ showInFolderDisabled = TRUE
  /\ dropZoneClasses = {}
  /\ dialogActive = FALSE
  /\ templateSelectorValue = "auto"
  /\ preview = "placeholder"
  /\ displayed = 0
  /\ flagged = FALSE
  /\ stale = EmptyBag
  /\ toMain = <<>>
  /\ toRenderer = <<>>
  /\ pending = 0
  /\ pickerOpen = FALSE
  /\ sentFile = NoFileMsg
  /\ clock = 0

\* no call of the main-process handlers made yet
NotCalled == [fn |-> "", value |-> <<>>]

Init ==
  /\ InitRenderer
  /\ disk = ExistingFiles
  /\ mailDropInput = JUndef
  /\ mailDropResult = NotCalled
  /\ parseInput = NoParseInput
  /\ parseResult = NotParsed

(***************************************************************************)
(* Actions: the user.                                                      *)
(***************************************************************************)
\* the native file dialog is modal: while it is open the window takes no
\* input from the user; events of the main process still arrive
WindowTakesInput == ~pickerOpen

\* lines 315-362 up to the dialog being shown (also the drop zone's click
\* listener, lines 603-608)
OpenFilePicker ==
  /\ WindowTakesInput
  /\ Commit(IF isProcessing THEN Cur ELSE [Cur EXCEPT !.pickerOpen = TRUE])

\* lines 328-332: the dialog resolves
DialogResolve ==
  /\ pickerOpen
  /\ \E result \in DialogResults :
       LET s1 == [Cur EXCEPT !.pickerOpen = FALSE]
       IN  Commit(IF ~result.canceled /\ Len(result.filePaths) > 0
                    THEN handleFileSelection(s1, result.filePaths)
                    ELSE s1)

\* lines 585-588
DragEnter ==
  /\ WindowTakesInput
  /\ Commit([Cur EXCEPT !.dropZoneClasses = @ \cup {"drag-over"}])

\* lines 590-593
DragLeave ==
  /\ WindowTakesInput
  /\ Commit([Cur EXCEPT !.dropZoneClasses = @ \ {"drag-over"}])

\* lines 595-601
Drop ==
  /\ WindowTakesInput
  /\ \E files \in DropInputs :
       LET t == handleFileDrop([Cur EXCEPT !.dropZoneClasses = @ \ {"drag-over"}],
                               files)
       IN  Commit(t)

\* lines 235-239; a disabled button receives no click
GenerateClick ==
  /\ WindowTakesInput
  /\ ~generateDisabled
  /\ LET t == IF Len(uploadedFiles) > 0 /\ ~isProcessing
                THEN processSelectedFiles(Cur) ELSE Cur
     IN  Commit(t)

\* lines 245-253
FormatChange ==
  /\ WindowTakesInput
  /\ \E f \in Formats :
       LET s1 == [Cur EXCEPT !.selectedFormat = f]
       IN  Commit(IF Len(uploadedFiles) > 0
                    THEN updateGenerateButtonState(s1, TRUE) ELSE s1)

\* line 207: the listener is called with the click event, which is truthy,
\* so the updateUI branch of clearContent runs
ClearClick ==
  /\ WindowTakesInput
  /\ Commit(clearContent(Cur))

\* lines 211-215
OpenFileClick ==
  /\ WindowTakesInput
  /\ ~openFileDisabled
  /\ Commit(IF generatedFilePath # Null
              THEN [Cur EXCEPT !.sentFile = [ch |-> "open-file",
                                             filePath |-> generatedFilePath]]
              ELSE Cur)

\* lines 219-223
ShowInFolderClick ==
  /\ WindowTakesInput
  /\ ~showInFolderDisabled
  /\ Commit(IF generatedFilePath # Null
              THEN [Cur EXCEPT !.sentFile = [ch |-> "show-in-folder",
                                             filePath |-> generatedFilePath]]
              ELSE Cur)

\* lines 158-163: the retry button exists while the failure panel is shown
RetryClick ==
  /\ WindowTakesInput
  /\ preview = "failed"
  /\ LET t == processSelectedFiles(Cur)
     IN  Commit(t)

\* lines 259-270
TemplateConfirmClick ==
  /\ WindowTakesInput
  /\ dialogActive
  /\ LET s1 == [Cur EXCEPT !.selectedTemplate =
                              IF templateSelectorValue = "auto"
                                THEN Null ELSE templateSelectorValue,
                           !.dialogActive = FALSE]
         t == processSelectedFiles(s1)
     IN  Commit(t)

\* lines 274-284
TemplateCancelClick ==
  /\ WindowTakesInput
  /\ dialogActive
  /\ LET s1 == [Cur EXCEPT !.templateSelectorValue = "auto",
                           !.selectedTemplate = Null,
                           !.dialogActive = FALSE]
         t == processSelectedFiles(s1)
     IN  Commit(t)

\* the user picks another entry of the template selector
TemplateSelectorChange ==
  /\ WindowTakesInput
  /\ dialogActive
  /\ \E v \in TemplateValues :
       Commit([Cur EXCEPT !.templateSelectorValue = v])

(***************************************************************************)
(* Actions: the main process and the conversion backend.                   *)
(***************************************************************************)
\* the message of processSelectedFiles / handleFileDrop as the value the main
\* process receives
RequestData(m) ==
  JObj(<<Prop("paths", JArr([i \in 1..Len(m.paths) |-> JStr(m.paths[i])])),
         Prop("formatPreference", JStr(m.formatPreference)),
         Prop("selectedTemplate", IF m.selectedTemplate = Null
                                    THEN JNull ELSE JStr(m.selectedTemplate))>>)

\* mail-drop-handler.js lines 114-146 on the oldest message in flight
MainProcessDroppedFiles ==
  /\ Len(toMain) > 0
  /\ LET reply == ProcessDroppedFilesReply(RequestData(Head(toMain)))
         wire == IF reply.ch = "file-dropped"
                   THEN [ch |-> reply.ch,
                         payload |-> [i \in 1..Len(reply.payload) |->
                                        reply.payload[i].v]]
                   ELSE reply
     IN  Commit([Cur EXCEPT !.toMain = Tail(@), !.toRenderer = Append(@, wire)])

\* the renderer receives the reply: ipc.on('file-dropped')
OnFileDropped ==
  /\ Len(toRenderer) > 0
  /\ Head(toRenderer).ch = "file-dropped"
  /\ Commit(FileDropped([Cur EXCEPT !.toRenderer = Tail(@)],
                        Head(toRenderer).payload))

\* the renderer receives the reply: ipc.on('error')
OnErrorReply ==
  /\ Len(toRenderer) > 0
  /\ Head(toRenderer).ch = "error"
  /\ Commit(ErrorEvent([Cur EXCEPT !.toRenderer = Tail(@)],
                       Head(toRenderer).payload))

\* the backend answers an outstanding request with 'ebook-generated'
EbookGeneratedEvent(result) ==
  /\ pending > 0
  /\ Commit(EbookGenerated([Cur EXCEPT !.pending = @ - 1], result))

OnEbookGenerated == \E result \in Results : EbookGeneratedEvent(result)

\* the backend answers an outstanding request with 'ebook-generated', a
\* success without a filePath
OnEbookGeneratedNoFile ==
  /\ pending > 0
  /\ \E outcome \in BasenameOutcomes :
       Commit(EbookGeneratedNoFile([Cur EXCEPT !.pending = @ - 1], outcome))

\* the backend answers an outstanding request with 'error'
OnBackendError ==
  /\ pending > 0
  /\ Commit(ErrorEvent([Cur EXCEPT !.pending = @ - 1], "conversion failed"))

\* the backend reports the detected newsletter of an outstanding request
OnNewsletterInfo ==
  /\ pending > 0
  /\ \E info \in Infos :
       LET t == NewsletterInfo(Cur, info)
       IN  Commit(t)

\* the backend reports the progress of an outstanding request
ProgressUpdateEvent(pct) ==
  /\ pending > 0
  /\ Commit(ProgressUpdate(Cur, [percentage |-> pct, status |-> "working"]))

OnProgressUpdate == \E pct \in BackendPercentages : ProgressUpdateEvent(pct)

\* the payloads of a 'file-dropped' event: values that are no array, and
\* arrays of strings, objects with and without a path, numbers and null
FileDroppedEntries ==
  {JStr("a.eml"), JStr(""), JObj(<<Prop("path", JStr("b.pdf"))>>),
   JObj(<<Prop("name", JStr("f"))>>), JNum(1), JNull}
FileDroppedPayloads ==
  {JStr("a.eml"), JNull, JUndef,
   JObj(<<Prop("paths", JArr(<<JStr("a.eml")>>))>>)}
    \cup {JArr(a) :
            a \in UNION {[1..n -> FileDroppedEntries] : n \in 0..MaxEntries}}

\* mail-drop-handler.js lines 114-146 on the oldest message in flight, the
\* reply kept as the JavaScript value that is sent
MainProcessDroppedFilesValue ==
  /\ Len(toMain) > 0
  /\ LET reply == ProcessDroppedFilesReply(RequestData(Head(toMain)))
         wire == IF reply.ch = "file-dropped"
                   THEN [ch |-> reply.ch, payload |-> JArr(reply.payload)]
                   ELSE reply
     IN  Commit([Cur EXCEPT !.toMain = Tail(@), !.toRenderer = Append(@, wire)])

\* the main process sends 'file-dropped' with some payload
SendFileDropped ==
  /\ Len(toRenderer) < MaxInFlight
  /\ \E payload \in FileDroppedPayloads :
       Commit([Cur EXCEPT !.toRenderer =
                             Append(@, [ch |-> "file-dropped",
                                        payload |-> payload])])

\* the renderer receives a 'file-dropped' message whose payload is a
\* JavaScript value: ipc.on('file-dropped')
OnFileDroppedValue ==
  /\ Len(toRenderer) > 0
  /\ Head(toRenderer).ch = "file-dropped"
  /\ Commit(FileDroppedValue([Cur EXCEPT !.toRenderer = Tail(@)],
                             Head(toRenderer).payload))

(***************************************************************************)
(* Actions: timers.                                                        *)
(***************************************************************************)
\* the closures whose interval timer is active: the one progressInterval
\* holds and any other that was never cleared
IntervalTargets ==
  (IF progressInterval # NoInterval /\ progressInterval.interval
     THEN {[cur |-> TRUE, c |-> progressInterval]} ELSE {})
  \cup {[cur |-> FALSE, c |-> c] : c \in {x \in BagToSet(stale) : x.interval}}

WatchdogTargets ==
  (IF progressInterval # NoInterval /\ progressInterval.watchdog
     THEN {[cur |-> TRUE, c |-> progressInterval]} ELSE {})
  \cup {[cur |-> FALSE, c |-> c] : c \in {x \in BagToSet(stale) : x.watchdog}}

\* the state after the interval of closure w.c has fired
AfterInterval(s, w, elapsed) ==
  IF w.cur
    THEN LET r == IntervalCallback(s, w.c, elapsed)
         IN  IF r.st.progressInterval = NoInterval THEN r.st
             ELSE [r.st EXCEPT !.progressInterval = r.c]
    ELSE LET r == IntervalCallback([s EXCEPT !.stale = @ (-) SetToBag({w.c})],
                                   w.c, elapsed)
         IN  Keep(r.st, r.c)

\* the state after the watchdog of closure w.c has fired
AfterWatchdog(s, w) ==
  LET fired == [w.c EXCEPT !.watchdog = FALSE]
  IN  IF w.cur
        THEN WatchdogCallback([s EXCEPT !.progressInterval = fired], w.c)
        ELSE WatchdogCallback(Keep([s EXCEPT !.stale = @ (-) SetToBag({w.c})],
                                   fired), w.c)

\* an interval fires
Tick ==
  \E w \in IntervalTargets, elapsed \in BOOLEAN :
    Commit(AfterInterval(Cur, w, elapsed))

\* a 120 s timeout fires
Watchdog ==
  \E w \in WatchdogTargets :
    Commit(AfterWatchdog(Cur, w))

(***************************************************************************)
(* Specifications.  The controller's reachable states are too many to      *)
(* enumerate with every listener enabled at once, so each specification    *)
(* enables the listeners of one part of the controller.                    *)
(***************************************************************************)
\* the conversion pipeline: selecting, dropping, dispatching, the backend's
\* events, the template dialog, clear; no timer fires
Next ==
  \/ OpenFilePicker
  \/ DialogResolve
  \/ DragEnter
  \/ DragLeave
  \/ Drop
  \/ GenerateClick
  \/ ClearClick
  \/ RetryClick
  \/ TemplateConfirmClick
  \/ TemplateCancelClick
  \/ MainProcessDroppedFiles
  \/ OnFileDropped
  \/ OnErrorReply
  \/ OnEbookGenerated
  \/ OnBackendError
  \/ OnNewsletterInfo
  \/ OnProgressUpdate

Spec == Init /\ [][Next]_vars

\* the timers: one progress animation at a time, followed to its cap (at most
\* one closure of startProgressAnimation is alive).  The main process's reply
\* plays no part in the animation; the requests stay in flight.
OneAnimation ==
  BagCardinality(stale) + (IF progressInterval = NoInterval THEN 0 ELSE 1) <= 1

NextTimer ==
  \/ Drop /\ OneAnimation'
  \/ OnEbookGenerated
  \/ OnProgressUpdate
  \/ Tick
  \/ Watchdog

SpecTimer == Init /\ [][NextTimer]_vars

\* the timers with clear: one animation at a time, which a completion event
\* or a click on clear may end at any point of its course
NextTimerClear ==
  \/ Drop /\ OneAnimation'
  \/ ClearClick
  \/ OnEbookGenerated
  \/ OnProgressUpdate
  \/ Tick
  \/ Watchdog

SpecTimerClear == Init /\ [][NextTimerClear]_vars

\* the watchdogs across runs: runs are started, answered and cleared, their
\* watchdogs fire at any later time; no interval ticks
NextWatchdog ==
  \/ Drop
  \/ ClearClick
  \/ MainProcessDroppedFiles
  \/ OnFileDropped
  \/ OnErrorReply
  \/ OnEbookGenerated
  \/ Watchdog

SpecWatchdog == Init /\ [][NextWatchdog]_vars

\* the first run is started
StartRun ==
  /\ progressInterval = NoInterval
  /\ stale = EmptyBag
  /\ Drop

\* the interval of the running closure fires, 100 ms after its last firing
TickOnTime ==
  /\ progressInterval # NoInterval
  /\ progressInterval.interval
  /\ clock < WatchdogTicks
  /\ LET t == AfterInterval(Cur, [cur |-> TRUE, c |-> progressInterval], TRUE)
     IN  Commit([t EXCEPT !.clock = @ + 1])

\* the watchdog of the running closure fires, 120 s after the closure was
\* created
WatchdogOnTime ==
  /\ progressInterval # NoInterval
  /\ progressInterval.watchdog
  /\ clock = WatchdogTicks
  /\ Commit(AfterWatchdog(Cur, [cur |-> TRUE, c |-> progressInterval]))

\* one run in real time: its interval fires every 100 ms from the start and
\* is neither stopped nor restarted, the backend reports progress when it
\* likes and never completes, the watchdog fires after 120 s
NextClock ==
  \/ StartRun
  \/ TickOnTime
  \/ OnProgressUpdate
  \/ WatchdogOnTime

SpecClock == Init /\ [][NextClock]_vars

\* the requests: the format and the template are chosen, files are dropped
\* and dispatched, the backend answers; no timer fires and the result is not
\* opened
NextMessages ==
  \/ Drop
  \/ GenerateClick
  \/ FormatChange
  \/ ClearClick
  \/ RetryClick
  \/ TemplateConfirmClick
  \/ TemplateCancelClick
  \/ TemplateSelectorChange
  \/ MainProcessDroppedFiles
  \/ OnFileDropped
  \/ OnErrorReply
  \/ OnEbookGenerated
  \/ OnNewsletterInfo

SpecMessages == Init /\ [][NextMessages]_vars

\* the result buttons: files are dropped and dispatched, the backend
\* answers, the result is opened or shown, the window is cleared; the format
\* and the template stay as they are and no timer fires
NextButtons ==
  \/ Drop
  \/ GenerateClick
  \/ ClearClick
  \/ OpenFileClick
  \/ ShowInFolderClick
  \/ RetryClick
  \/ MainProcessDroppedFiles
  \/ OnFileDropped
  \/ OnErrorReply
  \/ OnEbookGenerated

SpecButtons == Init /\ [][NextButtons]_vars

\* an interval fires in the first ticks of its closure
EarlyTick ==
  \E w \in IntervalTargets, elapsed \in BOOLEAN :
    /\ w.c.progress < MaxEarlyProgress
    /\ Commit(AfterInterval(Cur, w, elapsed))

\* the animations across runs: runs are started while another is under way
\* or after it ended, they are answered, completed and cleared, the interval
\* of a closure fires during its first ticks and the watchdogs fire at any
\* later time
NextRestart ==
  \/ Drop
  \/ GenerateClick
  \/ RetryClick
  \/ ClearClick
  \/ MainProcessDroppedFiles
  \/ OnFileDropped
  \/ OnErrorReply
  \/ OnEbookGenerated
  \/ EarlyTick
  \/ Watchdog

SpecRestart == Init /\ [][NextRestart]_vars

\* the results: files are dropped and dispatched, the main process replies,
\* the backend completes a run with any result, a success without a filePath
\* included, the window is cleared; no timer fires
NextResults ==
  \/ Drop
  \/ GenerateClick
  \/ RetryClick
  \/ ClearClick
  \/ MainProcessDroppedFiles
  \/ OnFileDropped
  \/ OnErrorReply
  \/ OnEbookGenerated
  \/ OnEbookGeneratedNoFile

SpecResults == Init /\ [][NextResults]_vars

\* the 'file-dropped' messages: files are dropped and dispatched, the main
\* process replies, 'file-dropped' also arrives with any other payload, runs
\* complete, the window is cleared; no timer fires
NextFileDropped ==
  \/ Drop
  \/ ClearClick
  \/ MainProcessDroppedFilesValue
  \/ SendFileDropped
  \/ OnFileDroppedValue
  \/ OnErrorReply
  \/ OnEbookGenerated

SpecFileDropped == Init /\ [][NextFileDropped]_vars

\* the main-process handlers as functions: one call on each input
JsStrings == {"", " ", "a.eml", " a.eml ", "b.pdf", "missing.eml"}
JsElements ==
  {JStr(x) : x \in {"", "a.eml", " a.eml ", "b.pdf", "missing.eml"}}
    \cup {JBuf("a.eml"), JNum(1), JNull}
JsArrays == UNION {[1..n -> JsElements] : n \in 0..MaxLen}
JsInputs ==
  {JArr(a) : a \in JsArrays}
    \cup {JStr(x) : x \in JsStrings}
    \cup {JObj(<<Prop("paths", JArr(a))>>) : a \in JsArrays}
    \cup {JObj(<<Prop("paths", JStr(x))>>) : x \in JsStrings}
    \cup {JObj(<<Prop("0", JStr("a.eml")), Prop("1", JStr(" ")),
                 Prop("2", JStr("b.pdf ")), Prop("n", JNum(1))>>),
          JObj(<<>>), JBuf("a.eml"), JNum(0), JNum(1), JBool(TRUE), JNull, JUndef}
    \cup {JObj(<<Prop("paths", v)>>) :
            v \in {JNum(1), JBool(TRUE), JNull, JBuf("a.eml"),
                   JObj(<<Prop("0", JStr("a.eml"))>>)}}
DiskPaths == {"a.eml", "b.pdf"}

InitDrop ==
  /\ InitRenderer
  /\ disk \in SUBSET DiskPaths
  /\ mailDropInput \in JsInputs
  /\ mailDropResult = NotCalled
  /\ parseInput = NoParseInput
  /\ parseResult = NotParsed

\* mailDropHandler.handleMailDrop(mailDropInput)
CallHandleMailDrop ==
  /\ mailDropResult = NotCalled
  /\ mailDropResult' = [fn |-> "handleMailDrop",
                        value |-> handleMailDrop(mailDropInput)]
  /\ UNCHANGED <<uploadedFiles, generatedFilePath, isProcessing,
                 detectedNewsletterInfo, selectedTemplate, selectedFormat,
                 progressInterval, generateDisabled, openFileDisabled,
                 showInFolderDisabled, dropZoneClasses, dialogActive,
                 templateSelectorValue, preview, displayed, flagged, stale,
                 toMain, toRenderer, pending, pickerOpen, sentFile, clock, disk,
                 mailDropInput, parseInput, parseResult>>

\* the 'process-dropped-files' listener runs on mailDropInput
CallIpcHandler ==
  /\ mailDropResult = NotCalled
  /\ mailDropResult' = [fn |-> "process-dropped-files",
                        value |-> ProcessDroppedFilesReply(mailDropInput)]
  /\ UNCHANGED <<uploadedFiles, generatedFilePath, isProcessing,
                 detectedNewsletterInfo, selectedTemplate, selectedFormat,
                 progressInterval, generateDisabled, openFileDisabled,
                 showInFolderDisabled, dropZoneClasses, dialogActive,
                 templateSelectorValue, preview, displayed, flagged, stale,
                 toMain, toRenderer, pending, pickerOpen, sentFile, clock, disk,
                 mailDropInput, parseInput, parseResult>>

NextDrop ==
  \/ CallHandleMailDrop
  \/ CallIpcHandler

SpecDrop == InitDrop /\ [][NextDrop]_vars

\* parseEmlFile as a function of its argument and its environment
InitParse ==
  /\ InitRenderer
  /\ disk \in SUBSET ParsePaths
  /\ mailDropInput = JUndef
  /\ mailDropResult = NotCalled
  /\ parseInput \in [path : ParsePaths, env : ParseEnvs]
  /\ parseResult = NotParsed

\* await parseEmlFile(parseInput.path)
CallParseEmlFile ==
  /\ parseResult = NotParsed
  /\ parseResult' = parseEmlFile(parseInput.path, parseInput.env)
  /\ UNCHANGED <<uploadedFiles, generatedFilePath, isProcessing,
                 detectedNewsletterInfo, selectedTemplate, selectedFormat,
                 progressInterval, generateDisabled, openFileDisabled,
                 showInFolderDisabled, dropZoneClasses, dialogActive,
                 templateSelectorValue, preview, displayed, flagged, stale,
                 toMain, toRenderer, pending, pickerOpen, sentFile, clock, disk,
                 mailDropInput, mailDropResult, parseInput>>

NextParse == CallParseEmlFile

SpecParse == InitParse /\ [][NextParse]_vars

(***************************************************************************)
(* Properties.                                                             *)
(***************************************************************************)
\* no interval timer of the progress animation is active
TimerCancelled ==
  /\ progressInterval = NoInterval
  /\ \A c \in BagToSet(stale) : ~c.interval

\* C1: the renderer never sends a 'process-dropped-files' message while
\* isProcessing is true, whichever handler triggers the send, so that at most
\* one request is outstanding.
C1_NoSendWhileProcessing ==
  [][pending' > pending => ~isProcessing]_vars

\* C2: in every reachable state, if isProcessing is true then the generate
\* button is disabled.
C2_ProcessingDisablesGenerate == isProcessing => generateDisabled

\* C3: whenever the backend answers an outstanding request with an
\* 'ebook-generated' event or with an 'error' event, isProcessing is false
\* afterwards.
C3_AnswerEndsRun ==
  [][OnEbookGenerated \/ OnBackendError => ~isProcessing']_vars

\* C4: the displayed percentage never decreases from one state to the next
\* while isProcessing stays true.
C4_ProgressMonotone ==
  [][isProcessing /\ isProcessing' => displayed' >= displayed]_vars

\* C5 as stated: the displayed percentage is at most 95 while a run is being
\* processed and its completion event has not arrived, and exactly 100 right
\* after any 'ebook-generated' event.
C5_AtMost95UntilCompletion ==
  [][/\ isProcessing' /\ pending' > 0 => displayed' <= 95
     /\ OnEbookGenerated => displayed' = 100]_vars

\* C5, amended: only a backend event brings the displayed percentage above
\* 95 (every value the progress timer writes is at most 95, and no closure's
\* progress exceeds 95), and the displayed percentage is exactly 100 right
\* after any 'ebook-generated' event, success or failure.
C5_TimerCappedCompletionForces100 ==
  [][/\ displayed' > 95 /\ displayed' # displayed
          => OnEbookGenerated \/ OnProgressUpdate
     /\ Tick => displayed' <= 95 \/ displayed' = displayed
     /\ progressInterval' # NoInterval => progressInterval'.progress <= 950
     /\ OnEbookGenerated => displayed' = 100]_vars

\* the timer ran to its cap and the completion event then forced 100
C5_Witness ==
  /\ displayed = 100
  /\ ~isProcessing
  /\ preview \in {"success", "failed"}
  /\ \E c \in BagToSet(stale) : c.progress = 950

C8_FailureEnablesIffFilePath ==
  [][\A result \in Results :
       ~result.success /\ EbookGeneratedEvent(result) =>
         /\ ~openFileDisabled' <=> result.filePath # Null
         /\ ~showInFolderDisabled' <=> result.filePath # Null]_vars

\* C9: every element of the array handleMailDrop returns is a string, for
\* every input.
C9_ReturnsStrings ==
  mailDropResult.fn = "handleMailDrop" =>
    \A i \in 1..Len(mailDropResult.value) : mailDropResult.value[i].t = "string"

\* a candidate path that exists on disk
OnDisk(c) == c.t = "string" /\ c.v \in disk

\* the candidates that exist, each as often and in the order it occurs in
\* cands: the j-th entry is the candidate at the j-th existing position
KeptIndexes(cands) == {i \in 1..Len(cands) : OnDisk(cands[i])}

NthKept(cands, j) ==
  CHOOSE i \in KeptIndexes(cands) :
    Cardinality({k \in KeptIndexes(cands) : k <= i}) = j

ExistingInOrder(cands) ==
  [j \in 1..Cardinality(KeptIndexes(cands)) |-> cands[NthKept(cands, j)]]

AllStrings(cands) == \A i \in 1..Len(cands) : cands[i].t = "string"

\* C10: the existence filter of handleMailDrop (on candidate paths, which are
\* strings) and the one of the IPC handler return exactly the candidates that
\* exist on disk, in their input order and with their multiplicity.
C10_FilterKeepsExisting ==
  /\ mailDropResult.fn = "handleMailDrop"
       /\ AllStrings(SanitizedPaths(mailDropInput))
       => mailDropResult.value = ExistingInOrder(SanitizedPaths(mailDropInput))
  /\ mailDropResult.fn = "process-dropped-files"
       /\ Truthy(mailDropInput) /\ Truthy(GetProp(mailDropInput, "paths"))
       => LET want == ExistingInOrder(PathsArray(GetProp(mailDropInput, "paths")))
          IN  IF want = <<>>
                THEN mailDropResult.value.ch = "error"
                ELSE /\ mailDropResult.value.ch = "file-dropped"
                     /\ mailDropResult.value.payload = want

\* an existing path twice around a missing one: both occurrences are kept
C10_Witness ==
  /\ mailDropInput = JArr(<<JStr("a.eml"), JStr("missing.eml"), JStr("a.eml")>>)
  /\ "a.eml" \in disk
  /\ mailDropResult.fn = "handleMailDrop"
  /\ mailDropResult.value = <<JStr("a.eml"), JStr("a.eml")>>

\* the paths of a list that exist on disk, in the list's order
ExistingPaths(paths) == SelectSeq(paths, LAMBDA p : p \in disk)

\* C11: when the reply to a drop is handled (the dropped paths are still in
\* uploadedFiles and the run is being processed), uploadedFiles becomes
\* exactly the dropped paths that exist on disk, in their order, and the
\* generate button is enabled.
C11_ReplyLeavesExistingPaths ==
  [][(OnFileDropped \/ OnErrorReply) /\ isProcessing /\ uploadedFiles # <<>>
       => /\ uploadedFiles' = ExistingPaths(uploadedFiles)
          /\ ~generateDisabled']_vars

\* the strings among the entries of paths that name an existing file, in
\* their order
ExistingStrings(paths) ==
  LET RECURSIVE from(_)
      from(i) == IF i > Len(paths) THEN <<>>
                 ELSE IF paths[i].t = "string" /\ paths[i].v \in disk
                   THEN <<paths[i]>> \o from(i + 1)
                 ELSE from(i + 1)
  IN  from(1)

\* the entries a 'process-dropped-files' payload offers: those of data.paths
\* when it is an array, data.paths itself when it is a string, none otherwise
OfferedPaths(data) ==
  IF data.t # "object" THEN <<>>
  ELSE LET named == {i \in 1..Len(data.v) : data.v[i].k = "paths"}
       IN  IF named = {} THEN <<>>
           ELSE LET paths == data.v[CHOOSE i \in named : TRUE].v
                IN  CASE paths.t = "array" -> paths.v
                      [] paths.t = "string" -> <<paths>>
                      [] OTHER -> <<>>

\* C12: the 'process-dropped-files' listener sends exactly one reply per
\* message: 'error' with the text "No valid files found for processing."
\* when the payload is missing, has no paths, has paths that are neither an
\* array nor a string, or offers no existing string path; otherwise
\* 'file-dropped' with the non-empty list of exactly the existing string
\* paths in input order.
C12_OneReplyPerDropMessage ==
  mailDropResult.fn = "process-dropped-files" =>
    LET sends == ProcessDroppedFilesSends(mailDropInput)
        want == ExistingStrings(OfferedPaths(mailDropInput))
    IN  /\ Len(sends) = 1
        /\ mailDropResult.value = sends[1]
        /\ want = <<>> =>
             sends[1] = [ch |-> "error",
                         payload |-> "No valid files found for processing."]
        /\ want # <<>> => sends[1] = [ch |-> "file-dropped", payload |-> want]

\* a payload offering an existing string path, a Buffer naming the same file
\* and a missing path: the reply carries the string path alone
C12_Witness ==
  /\ mailDropInput = JObj(<<Prop("paths",
         JArr(<<JStr("a.eml"), JBuf("a.eml"), JStr("missing.eml")>>))>>)
  /\ "a.eml" \in disk
  /\ mailDropResult.fn = "process-dropped-files"
  /\ mailDropResult.value = [ch |-> "file-dropped", payload |-> <<JStr("a.eml")>>]

\* a payload whose paths is a number: answered with the error text
C12_WitnessError ==
  /\ mailDropInput = JObj(<<Prop("paths", JNum(1))>>)
  /\ mailDropResult.fn = "process-dropped-files"
  /\ mailDropResult.value.ch = "error"

\* a string with something left after trimming
NonBlankString(v) == v.t = "string" /\ Trim(v.v) # ""

\* the own enumerable values of a plain object that are non-blank strings, in
\* enumeration order
NonBlankValues(props) ==
  LET RECURSIVE from(_)
      from(i) == IF i > Len(props) THEN <<>>
                 ELSE IF NonBlankString(props[i].v)
                   THEN <<props[i].v>> \o from(i + 1)
                 ELSE from(i + 1)
  IN  from(1)

\* the reference normalisation of a drop input, by the shape of the input.  A
\* Buffer's own enumerable values are its bytes, none of them a string.
ReferenceNormalization(x) ==
  CASE x.t = "array" -> x.v
    [] x.t = "string" ->
         IF NonBlankString(x) THEN <<[t |-> "string", v |-> Trim(x.v)]>> ELSE <<>>
    [] x.t = "object" ->
         LET named == {i \in 1..Len(x.v) : x.v[i].k = "paths"}
         IN  IF named # {} /\ x.v[CHOOSE i \in named : TRUE].v.t = "array"
               THEN x.v[CHOOSE i \in named : TRUE].v.v
               ELSE NonBlankValues(x.v)
    [] x.t \in {"buffer", "null", "undefined", "number", "boolean"} -> <<>>

\* C17: before the existence filter, the candidate list of handleMailDrop is
\* the reference normalisation of its input: an array unchanged; a non-blank
\* string as the one-element list of the trimmed string; an object with an
\* array paths as that array; any other object as its own enumerable values
\* that are non-blank strings, in enumeration order; everything else empty.
C17_CandidatesAreNormalizedInput ==
  mailDropResult.fn = "handleMailDrop" =>
    /\ SanitizedPaths(mailDropInput) = ReferenceNormalization(mailDropInput)
    /\ mailDropResult.value = ValidFiles(ReferenceNormalization(mailDropInput))

\* an object without an array paths: its non-blank string values are the
\* candidates, untrimmed, and the blank and the number are left out
C17_Witness ==
  /\ mailDropInput = JObj(<<Prop("0", JStr("a.eml")), Prop("1", JStr(" ")),
                            Prop("2", JStr("b.pdf ")), Prop("n", JNum(1))>>)
  /\ disk = {"a.eml", "b.pdf"}
  /\ mailDropResult.fn = "handleMailDrop"
  /\ SanitizedPaths(mailDropInput) = <<JStr("a.eml"), JStr("b.pdf ")>>
  /\ mailDropResult.value = <<JStr("a.eml")>>

\* what a dispatch of uploadedFiles does to the controller
Dispatched ==
  /\ isProcessing'
  /\ generateDisabled'
  /\ "processing" \in dropZoneClasses'
  /\ progressInterval' = Closure(0, TRUE, TRUE)
  /\ pending' = pending + 1
  /\ toMain' = Append(toMain, [paths |-> uploadedFiles,
                               formatPreference |-> selectedFormat,
                               selectedTemplate |-> selectedTemplate])

\* nothing is sent and the run, the timers and the drop zone stay as they are
NothingDispatched ==
  UNCHANGED <<toMain, pending, isProcessing, progressInterval, stale,
              dropZoneClasses>>

\* C18: a generate click is acted on only when uploadedFiles is non-empty and
\* isProcessing is false; it then sets isProcessing, disables the generate
\* button, marks the drop zone as processing, starts the progress timer and
\* sends exactly one 'process-dropped-files' message.  No message is sent
\* with an empty file list: with uploadedFiles empty a listener that calls
\* processSelectedFiles sends nothing and leaves isProcessing, the timers and
\* the drop zone unchanged.
C18_DispatchNeedsFiles ==
  [][/\ GenerateClick =>
          IF Len(uploadedFiles) > 0 /\ ~isProcessing
            THEN Dispatched ELSE NothingDispatched
     /\ toMain' # toMain /\ Len(toMain') >= Len(toMain) =>
          Len(toMain'[Len(toMain')].paths) > 0
     /\ (RetryClick \/ TemplateConfirmClick \/ TemplateCancelClick)
          /\ Len(uploadedFiles) = 0 => NothingDispatched]_vars

\* the first dispatch of files chosen in the dialog: the request is in
\* flight, the first progress timer runs, the button is disabled
C18_Witness ==
  /\ preview = "filesReady"
  /\ isProcessing /\ generateDisabled
  /\ "processing" \in dropZoneClasses
  /\ progressInterval = Closure(0, TRUE, TRUE) /\ stale = EmptyBag
  /\ pending = 1 /\ Len(toMain) = 1 /\ toMain[1].paths = uploadedFiles
  /\ generatedFilePath = Null

\* the template dialog is answered after clear emptied the file list
C18_WitnessEmpty ==
  /\ dialogActive /\ Len(uploadedFiles) = 0 /\ pending > 0

\* C19: choosing files in the dialog or dropping files while the controller
\* is idle fills uploadedFiles and enables the generate button, and leaves
\* the controller out of Processing: isProcessing stays false and the drop
\* zone is not marked as processing.
C19_SelectionDoesNotProcess ==
  [][(DialogResolve \/ Drop) /\ ~isProcessing /\ uploadedFiles' # uploadedFiles
       => /\ Len(uploadedFiles') > 0
          /\ ~generateDisabled'
          /\ ~isProcessing'
          /\ "processing" \notin dropZoneClasses'
          /\ pending' = pending]_vars

\* the part of C19 about the dialog alone
C19_DialogSelectionDoesNotProcess ==
  [][DialogResolve /\ ~isProcessing /\ uploadedFiles' # uploadedFiles
       => /\ Len(uploadedFiles') > 0
          /\ ~generateDisabled'
          /\ ~isProcessing'
          /\ "processing" \notin dropZoneClasses'
          /\ pending' = pending]_vars

\* C20: answering the template dialog during Processing closes the dialog,
\* sets selectedTemplate (the selector's value, or null for 'auto' and on
\* cancel) and stays in the same run: isProcessing true, the progress timer
\* not restarted, no further request sent.
C20_TemplateAnswerKeepsRun ==
  [][(TemplateConfirmClick \/ TemplateCancelClick) /\ isProcessing
       => /\ ~dialogActive'
          /\ isProcessing'
          /\ progressInterval' = progressInterval
          /\ displayed' = displayed
          /\ pending' = pending /\ toMain' = toMain]_vars

\* the part of C20 before the answer: a 'newsletter-info' with a type opens
\* the dialog, stores the info and sends nothing
C20_TypedInfoOpensDialog ==
  [][OnNewsletterInfo /\ dialogActive' /\ ~dialogActive
       => /\ detectedNewsletterInfo' \in Infos
          /\ detectedNewsletterInfo'.type # Null
          /\ pending' = pending /\ toMain' = toMain
          /\ progressInterval' = progressInterval
          /\ isProcessing' = isProcessing]_vars

\* the string s has m as a substring
Contains(s, m) ==
  \E i \in 1..(Len(s) - Len(m) + 1) : SubSeq(s, i, i + Len(m) - 1) = m

\* parseEmlFile was called on a path that existed at the check of line 15
ParsedExisting == parseResult # NotParsed /\ parseInput.path \in disk

\* C13: parseEmlFile raises to its caller only when the file does not exist
\* at the initial check, with 'File not found'; for an existing path it
\* resolves to an envelope whatever fails afterwards (read, MIME parse,
\* detector load, detector call).
C13_RaisesOnlyWhenMissing ==
  parseResult # NotParsed =>
    /\ parseInput.path \notin disk =>
         /\ parseResult.kind = "rejected"
         /\ Contains(parseResult.message, "File not found")
         /\ Contains(parseResult.message, parseInput.path)
    /\ parseInput.path \in disk =>
         /\ parseResult.kind = "resolved"
         /\ parseResult.envelope # NoEnvelope

\* an existing path that cannot be read (a directory): resolved all the same
C13_Witness ==
  /\ ParsedExisting
  /\ ~parseInput.env.read.ok
  /\ parseResult.kind = "resolved"

\* C14: every value parseEmlFile resolves with has the seven fields subject,
\* from, text, html, date, attachments and newsletterInfo.
C14_SevenFields ==
  parseResult.kind = "resolved" =>
    DOMAIN parseResult.envelope =
      {"subject", "from", "text", "html", "date", "attachments", "newsletterInfo"}

\* the base name without the .eml extension of each path of the model
ExpectedSubject(pathName) ==
  CASE pathName = "a.eml" -> "a"
    [] pathName = "in/news.eml" -> "news"
    [] pathName = "in/b.pdf" -> "b.pdf"

\* the message of the error that made reading or parsing fail
FailureMessage ==
  IF ~parseInput.env.read.ok THEN parseInput.env.read.message
  ELSE parseInput.env.parse.message

\* C15: when reading or parsing an existing file fails, the envelope's text
\* and html both contain the error's message, its subject is the file's base
\* name without the .eml extension and its newsletterInfo is
\* {type: 'generic', name: 'Newsletter', confidence: 0}.
C15_FailureEnvelope ==
  ParsedExisting /\ (~parseInput.env.read.ok \/ ~parseInput.env.parse.ok) =>
    /\ parseResult.kind = "resolved"
    /\ Contains(parseResult.envelope.text, FailureMessage)
    /\ Contains(parseResult.envelope.html, FailureMessage)
    /\ parseResult.envelope.subject = ExpectedSubject(parseInput.path)
    /\ parseResult.envelope.newsletterInfo =
         [type |-> "generic", name |-> "Newsletter", confidence |-> 0]

\* mailparser rejects the content of in/news.eml
C15_Witness ==
  /\ ParsedExisting
  /\ parseInput.path = "in/news.eml"
  /\ ~parseInput.env.parse.ok
  /\ parseResult.kind = "resolved"
  /\ parseResult.envelope.subject = "news"
  /\ parseResult.envelope.text = "Error parsing file: Invalid MIME structure"

\* the detector could not be loaded, has no detectNewsletterType, or threw
DetectorFailed ==
  \/ parseInput.env.detector.load \in {"throws", "null", "noFunction"}
  \/ parseInput.env.detector.call = "throws"

\* C16: when the detector cannot be loaded, lacks detectNewsletterType or
\* throws during the call, parseEmlFile resolves with the parsed envelope
\* (subject, from, text, html, date, attachments as parsed, with the defaults
\* for missing ones) and newsletterInfo
\* {type: 'generic', name: 'Newsletter', confidence: 0}.
C16_DetectorFailureKeepsEnvelope ==
  ParsedExisting /\ parseInput.env.read.ok /\ parseInput.env.parse.ok
    /\ DetectorFailed =>
    LET mail == parseInput.env.parsed
        e == parseResult.envelope
    IN  /\ parseResult.kind = "resolved"
        /\ e.subject = (IF mail.subject = ""
                          THEN ExpectedSubject(parseInput.path) ELSE mail.subject)
        /\ e.from = mail.from.text
        /\ e.text = mail.text
        /\ e.html = mail.html
        /\ e.date = (IF mail.date = "sent" THEN "Sun, 01 Nov 2026 10:00:00 GMT"
                     ELSE "Thu, 05 Nov 2026 12:00:00 GMT")
        /\ e.attachments = mail.attachments.value
        /\ e.newsletterInfo =
             [type |-> "generic", name |-> "Newsletter", confidence |-> 0]

\* detectNewsletterType throws on a message with a subject and an attachment
C16_Witness ==
  /\ ParsedExisting
  /\ parseInput.env.read.ok /\ parseInput.env.parse.ok
  /\ parseInput.env.detector.call = "throws"
  /\ parseInput.env.parsed.subject = "Weekly"
  /\ parseInput.env.parsed.attachments = Present(<<"logo.png">>)
  /\ parseResult.kind = "resolved"
  /\ parseResult.envelope.subject = "Weekly"
  /\ parseResult.envelope.attachments = <<"logo.png">>
  /\ parseResult.envelope.newsletterInfo = GenericInfo

C21_WitnessClear ==
  /\ ~isProcessing
  /\ preview = "placeholder"
  /\ progressInterval = NoInterval
  /\ stale = SetToBag({Closure(15, FALSE, TRUE)})

\* C22: once a new request has been dispatched, the result state of the
\* previous run is gone: generatedFilePath is null and the open-file and
\* show-in-folder buttons are disabled, so that no file action can act on
\* the output of an older run.
C22_DispatchClearsResult ==
  [][pending' > pending
       => /\ generatedFilePath' = Null
          /\ openFileDisabled'
          /\ showInFolderDisabled']_vars

\* a closure with its watchdog gone
Fired(c) == [c EXCEPT !.watchdog = FALSE]

\* C23: the watchdog is visual only.  When a watchdog fires, in any state,
\* isProcessing, uploadedFiles, the progress timer (which closure
\* progressInterval holds, whether its interval runs, its progress value),
\* the displayed percentage and every other closure stay as they are and
\* nothing is sent; at most the bar is recoloured.
C23_WatchdogIsVisualOnly ==
  [][Watchdog =>
       /\ UNCHANGED <<isProcessing, uploadedFiles, displayed, toMain, pending,
                      sentFile, generatedFilePath, dropZoneClasses, preview,
                      generateDisabled>>
       /\ progressInterval' \in {progressInterval, Fired(progressInterval)}
       /\ BagCardinality(stale') <= BagCardinality(stale)
       /\ \A c \in BagToSet(stale') :
            \E b \in BagToSet(stale) : c \in {b, Fired(b)}
       /\ flagged => flagged']_vars

\* the watchdog of a run that is still below 90 has fired and flagged it; the
\* run goes on
C23_Witness ==
  /\ flagged
  /\ isProcessing
  /\ progressInterval = Closure(250, TRUE, FALSE)
  /\ pending > 0

\* the step of the claim's table, in tenths: 0.5 up to 30, 0.3 between 30 and
\* 60, 0.2 from 60 to 80, 0.1 from 80 on
BandStep(p) ==
  CASE p <= 300 -> 5
    [] p > 300 /\ p < 600 -> 3
    [] p >= 600 /\ p < 800 -> 2
    [] p >= 800 -> 1

\* C24: the step of the synthetic timer per tick is 0.5 in the 0-30 band,
\* 0.3 in the 30-60 band, 0.2 in the 60-80 band and 0.1 from 80 on, and is
\* not larger at the value a tick leads to than at the value it started
\* from; a timer's progress value starts at 0, never decreases and never
\* exceeds 95.
C24_TimerSteps ==
  [][/\ progressInterval' # NoInterval =>
          /\ progressInterval'.progress >= 0
          /\ progressInterval'.progress <= 950
     /\ progressInterval' # NoInterval
          /\ (progressInterval = NoInterval \/ pending' > pending)
          => progressInterval'.progress = 0
     /\ progressInterval # NoInterval /\ progressInterval' # NoInterval
          /\ pending' <= pending =>
          LET p == progressInterval.progress
              q == progressInterval'.progress
          IN  /\ q >= p
              /\ q \in {p, Min(p + BandStep(p), 950)}
              /\ Increment(q) <= Increment(p)
              /\ q > p => Tick]_vars

\* the timer is in its last band, one tick of 0.1 away from the cap
C24_Witness ==
  /\ isProcessing
  /\ progressInterval = Closure(949, TRUE, TRUE)

\* C27: isProcessing changes from false to true only through the dispatch of
\* a request; no backend event, in particular no late 'progress-update'
\* below 100, puts the controller back into the processing state.
C27_ProcessingOnlyByDispatch ==
  [][~isProcessing /\ isProcessing' => pending' > pending]_vars

\* the controller is in the state clear leaves: nothing selected, no result,
\* every button disabled, not processing
Cleared ==
  /\ uploadedFiles = <<>>
  /\ generatedFilePath = Null
  /\ ~isProcessing
  /\ generateDisabled /\ openFileDisabled /\ showInFolderDisabled

\* C28: once cleared, the controller stays so under the backend's events of
\* a request dispatched before the clear: 'ebook-generated', 'file-dropped',
\* 'newsletter-info' and 'progress-update' do not repopulate uploadedFiles,
\* set generatedFilePath, enable a button or dispatch a request.
C28_BackendEventsKeepCleared ==
  [][Cleared /\ (OnEbookGenerated \/ OnFileDropped \/ OnNewsletterInfo
                   \/ OnProgressUpdate)
       => /\ uploadedFiles' = <<>>
          /\ generatedFilePath' = Null
          /\ generateDisabled' /\ openFileDisabled' /\ showInFolderDisabled'
          /\ pending' <= pending /\ toMain' = toMain]_vars

\* C29: a watchdog flags only the run that scheduled it: when the bar turns
\* red, the watchdog that fired is the one of the closure progressInterval
\* holds, not one left over from a run that was completed, cleared or
\* restarted.
C29_WatchdogFlagsOwnRun ==
  [][Watchdog /\ ~flagged /\ flagged'
       => /\ progressInterval # NoInterval
          /\ progressInterval.watchdog
          /\ progressInterval' = Fired(progressInterval)]_vars

\* C30: in a run whose interval ticks every 100 ms from the start without
\* being stopped or restarted, the timer's progress is at least 90 when the
\* watchdog fires 1200 ticks later, so the watchdog does not flag the run.
C30_OnTimeRunIsNotFlagged ==
  /\ progressInterval # NoInterval /\ clock = WatchdogTicks
       => progressInterval.progress >= 900
  /\ ~flagged

\* the watchdog of a run that ticked 1200 times has fired; the run goes on,
\* unflagged
C30_Witness ==
  /\ clock = 1200
  /\ isProcessing
  /\ progressInterval = Closure(950, TRUE, FALSE)
  /\ ~flagged

\* the request made of the renderer's state as it is after the handler ran
RequestOfState ==
  [paths |-> uploadedFiles',
   formatPreference |-> selectedFormat',
   selectedTemplate |-> selectedTemplate']

\* C25: every 'process-dropped-files' message the renderer sends carries a
\* non-empty paths array equal to uploadedFiles at send time, a
\* formatPreference equal to the currently selected format (one of the format
\* values, 'auto' unless another was chosen in a format change) and a
\* selectedTemplate that is null or the template last confirmed in the
\* template dialog: the template changes to a non-null value only in a
\* confirm click, to the selector's value, and to null only in a confirm with
\* 'auto', a cancel or a clear.  Messages are added to the channel only by
\* such a send.
C25_RequestCarriesSelection ==
  [][/\ pending' > pending =>
          /\ toMain' = Append(toMain, RequestOfState)
          /\ Len(uploadedFiles') > 0
          /\ selectedFormat' \in Formats
          /\ selectedTemplate' \in {Null} \cup (TemplateValues \ {"auto"})
     /\ Len(toMain') > Len(toMain) => pending' > pending
     /\ selectedFormat' # selectedFormat => FormatChange
     /\ selectedTemplate' # selectedTemplate =>
          IF selectedTemplate' = Null
            THEN \/ ClearClick
                 \/ TemplateCancelClick
                 \/ TemplateConfirmClick /\ templateSelectorValue = "auto"
            ELSE /\ TemplateConfirmClick
                 /\ selectedTemplate' = templateSelectorValue]_vars

\* a request in flight that was sent from the template dialog with the epub
\* format and the substack template chosen
C25_Witness ==
  /\ Len(toMain) = 1
  /\ toMain[1] = [paths |-> uploadedFiles,
                  formatPreference |-> "epub",
                  selectedTemplate |-> "substack"]
  /\ selectedFormat = "epub" /\ selectedTemplate = "substack"
  /\ ~dialogActive /\ isProcessing

\* the channels of the result buttons
FileChannels == {"open-file", "show-in-folder"}

ActiveIntervals ==
  LET running == {c \in BagToSet(stale) : c.interval}
  IN  (IF progressInterval # NoInterval /\ progressInterval.interval
         THEN 1 ELSE 0)
      + BagCardinality([c \in running |-> CopiesIn(c, stale)])

\* C31: at most one progress interval timer is active at any time, over every
\* sequence of dispatches, completions and clears: after a dispatch the only
\* active interval is that of the new closure, which starts at 0, and the
\* interval of the closure it replaces is cancelled; after an
\* 'ebook-generated' event and after a clear no interval is active and
\* progressInterval is null.
C31_OneIntervalTimer ==
  [][/\ ActiveIntervals' <= 1
     /\ pending' > pending =>
          /\ progressInterval' = Closure(0, TRUE, TRUE)
          /\ \A c \in BagToSet(stale') : ~c.interval
     /\ OnEbookGenerated \/ ClearClick => TimerCancelled']_vars

\* the third run was started while the second was under way: the intervals
\* of the two earlier closures are cancelled, that of the third has ticked
C31_Witness ==
  /\ isProcessing
  /\ progressInterval = Closure(5, TRUE, TRUE)
  /\ BagCardinality(stale) = 2
  /\ BagIn(Closure(10, FALSE, TRUE), stale)
  /\ ActiveIntervals = 1

\* C32: after every 'ebook-generated' event, success or failure, with or
\* without a filePath in the result, the generate button is enabled if and
\* only if uploadedFiles is non-empty.
C32_GenerateFollowsFiles ==
  [][OnEbookGenerated \/ OnEbookGeneratedNoFile =>
       (~generateDisabled' <=> Len(uploadedFiles') > 0)]_vars

\* the same for the results that carry a filePath and for the failures
C32_GenerateFollowsFilesWithFile ==
  [][OnEbookGenerated =>
       (~generateDisabled' <=> Len(uploadedFiles') > 0)]_vars

\* C33: the newsletterInfo of every envelope parseEmlFile returns is a
\* classification record with type, name and confidence, whatever the
\* classifier returns: it is never null or undefined.
C33_NewsletterInfoIsRecord ==
  parseResult.kind = "resolved" =>
    LET info == parseResult.envelope.newsletterInfo
    IN  /\ info # NoInfo
        /\ info.type # Null
        /\ info.name # Null
        /\ info.confidence \in 0..100

\* the entries of a payload that are non-empty strings or objects with a
\* non-empty path, and what the statement below takes from each: the string,
\* the path
NamesFile(file) ==
  \/ file.t = "string" /\ file.v # ""
  \/ file.t = "object" /\ GetProp(file, "path") \notin {JUndef, JStr("")}
NamedFiles(files) ==
  LET named == SelectSeq(files, NamesFile)
  IN  [i \in 1..Len(named) |->
         IF named[i].t = "string" THEN named[i].v
         ELSE GetProp(named[i], "path").v]

\* C34: a 'file-dropped' event whose payload is not an array or is an empty
\* array changes no controller state (uploadedFiles, isProcessing, the
\* enablement of the buttons); a non-empty array replaces uploadedFiles with
\* exactly its string entries and the path of its object entries, in order
\* (entries that are an empty string or have an empty path count as naming
\* no file).
C34_FileDroppedReplacesFiles ==
  [][OnFileDroppedValue =>
       LET payload == Head(toRenderer).payload
       IN  IF payload.t # "array" \/ Len(payload.v) = 0
             THEN UNCHANGED <<uploadedFiles, isProcessing, generateDisabled,
                              openFileDisabled, showInFolderDisabled>>
             ELSE uploadedFiles' = NamedFiles(payload.v)]_vars

\* the part of C34 about payloads that are no array or an empty one, and
\* what the listener does with a non-empty array: with a null entry, or with
\* no entry that names a file, uploadedFiles stays as it is; otherwise it
\* becomes the files named, in order, and the generate button is enabled
FileDroppedKeepsOrFilters ==
  [][OnFileDroppedValue =>
       LET payload == Head(toRenderer).payload
           files == payload.v
       IN  IF payload.t # "array" \/ Len(files) = 0
             THEN UNCHANGED <<uploadedFiles, isProcessing, generateDisabled,
                              openFileDisabled, showInFolderDisabled>>
           ELSE IF JNull \in {files[i] : i \in 1..Len(files)}
                     \/ NamedFiles(files) = <<>>
             THEN UNCHANGED <<uploadedFiles, isProcessing, generateDisabled,
                              openFileDisabled, showInFolderDisabled>>
           ELSE /\ uploadedFiles' = NamedFiles(files)
                /\ ~generateDisabled'
                /\ UNCHANGED <<isProcessing, openFileDisabled,
                               showInFolderDisabled>>]_vars

====
